---- MODULE Spec2Model ----
(***************************************************************************)
(* A model of GrokAutomation (src/grokautomation.py) and of the UI         *)
(* discovery tool (src/discover_grok_ui.py).                               *)
(*                                                                         *)
(* The module holds one specification per component:                       *)
(*   SpecRun      run_automation and main: resume, the prompt loop, the    *)
(*                results file, the return value and the exit status       *)
(*   SpecWait     wait_for_response: one action per poll of the page       *)
(*   SpecResolve  find_element and discover_elements on one page           *)
(*   SpecAttempt  process_prompt, call by call: the retry loop, the UI     *)
(*                error check, start_new_conversation, the voice and the   *)
(*                text path, the wait for the response                     *)
(*   SpecDetect   detect_ui_errors on one page of error banners            *)
(* Every specification leaves the variables of the other components at     *)
(* their idle values.                                                      *)
(*                                                                         *)
(* Texts are sequences of one-character strings; CSV cells of the id       *)
(* column are strings; a value read by pandas.read_csv carries the dtype   *)
(* pandas inferred for its column.                                         *)
(***************************************************************************)
EXTENDS Integers, Sequences, FiniteSets, TLC

VARIABLES
    \* ---- run_automation / main
    r_pc,           \* position in main / run_automation
    resume,         \* the resume argument (--resume)
    prompts_file,   \* [kind, rows]: the prompts source as it is on disk
    max_retries,    \* config["max_retries"]
    retry_delay,    \* config["retry_delay"], as config.json holds it
    sink_exists,    \* os.path.exists(results_file)
    sink_lines,     \* the lines of results_file, header included
    sink0_exists,   \* results_file at the start of the run (history)
    sink0_lines,
    completed_ids,  \* run_automation: completed_ids
    df,             \* run_automation: df after validation and filtering
    i,              \* run_automation: number of finished loop iterations
    attempt,        \* connect_to_chrome_with_retry: attempt
    result,         \* run_automation: result of the prompt in flight
    results,        \* self.results
    started,        \* history: ids handed to process_prompt, in order
    run_fail,       \* history: why run_automation returned False or raised
    success,        \* main: success
    exit_status,    \* the status the process exits with
    \* ---- wait_for_response
    w_pc,           \* "idle", "polling" (in the while loop) or "done"
    cfg,            \* the config values wait_for_response reads
    last_text,      \* wait_for_response: last_text
    stable_count,   \* wait_for_response: stable_count
    response_started, \* wait_for_response: response_started
    elapsed,        \* loop.time() - start_time
    w_result,       \* the value wait_for_response returned
    w_exit,         \* history: the return statement taken
    w_last_poll,    \* history: how the last poll ended
    obs_prev,       \* history: the snapshot the last poll read
    held,           \* history: polls in a row that read the snapshot of the poll before
    phase,          \* history: shape of the snapshots read so far
    grew,           \* history: number of polls that read a longer snapshot
    ever_long,      \* history: some snapshot was longer than min_response_length
    rate_polls,     \* history: number of polls that saw a rate-limit banner
    obs_long,       \* history: the last snapshot read that was longer than min_response_length
    w_view,         \* history: the last poll: its banners [error_msg, hard], and
                    \* gone: has_messages was False on it after the reply started
    \* ---- find_element / discover_elements
    rs_pc,          \* "idle", "start", "found" or "discovered"
    page,           \* the elements of the page and what each selector matches
    fe_selector,    \* find_element: the selector it was given
    fe_result,      \* find_element: the element returned (0 for None)
    rs_found,       \* discover_elements: working_selectors
    \* ---- one attempt of process_prompt (the body of its try block)
    a_pc,           \* "idle", "loop", "detect", "newconv", "voice", "tts", "text", "check", "wait", "done", "returned", "raised"
    a_cfg,          \* [max_retries, retry, retry_delay]: retry is attempt < max_retries - 1
    a_thread,       \* the thread view when the attempt starts: [count, raises]
    nc,             \* what start_new_conversation did and returned
    voice,          \* what try_voice_mode did and returned
    tts,            \* what generate_and_stream_tts did and returned
    typed,          \* what send_text_input did and returned
    input_success,  \* process_prompt: input_success
    a_reloads,      \* number of grok_page.reload() calls of the attempt
    exit_voice,     \* exit_voice_mode was called
    a_outcome,      \* how the attempt ended, as attempt_loop reads it
    a_attempt,      \* process_prompt: attempt
    a_args,         \* process_prompt: [id, text], its arguments
    a_prev,         \* history: how the attempt before ended: [kind, response, reloads]
    p_return,       \* the record process_prompt returned
    \* ---- detect_ui_errors
    d_pc,           \* "idle", "called", "returned"
    d_alerts,       \* the error banners of the page, in document order
    d_result        \* what detect_ui_errors returned

run_vars == <<r_pc, resume, prompts_file, max_retries, retry_delay, sink_exists,
              sink_lines,
              sink0_exists, sink0_lines, completed_ids, df, i, attempt, result,
              results, started, run_fail, success, exit_status>>

wait_vars == <<w_pc, cfg, last_text, stable_count, response_started, elapsed,
               w_result, w_exit, w_last_poll, obs_prev, held, phase, grew,
               ever_long, rate_polls, obs_long, w_view>>

resolve_vars == <<rs_pc, page, fe_selector, fe_result, rs_found>>

attempt_vars == <<a_pc, a_cfg, a_thread, nc, voice, tts, typed, input_success,
                  a_reloads, exit_voice, a_outcome, a_attempt, a_args, a_prev,
                  p_return>>

\* What the calls inside one attempt leave alone.
loop_vars == <<a_attempt, a_args, a_prev, p_return>>

detect_vars == <<d_pc, d_alerts, d_result>>

vars == <<run_vars, wait_vars, resolve_vars, attempt_vars, detect_vars>>

\* What the actions of one component leave alone.
not_run_vars == <<wait_vars, resolve_vars, attempt_vars, detect_vars>>
not_wait_vars == <<run_vars, resolve_vars, attempt_vars, detect_vars>>
not_resolve_vars == <<run_vars, wait_vars, attempt_vars, detect_vars>>
not_attempt_vars == <<run_vars, wait_vars, resolve_vars, detect_vars>>
not_detect_vars == <<run_vars, wait_vars, resolve_vars, attempt_vars>>

----------------------------------------------------------------------------
(* Bounds of the model *)

MaxPrompts == 2
MaxOld == 1
MaxRetriesCfg == 2

----------------------------------------------------------------------------
(* Helpers *)

Range(s) == {s[k] : k \in DOMAIN s}

SeqsUpTo(S, n) == UNION {[1..k -> S] : k \in 0..n}

NoDup(s) == \A a, b \in DOMAIN s : a # b => s[a] # s[b]

RECURSIVE SelectRows(_, _)
SelectRows(s, keep) ==
    IF s = <<>> THEN <<>>
    ELSE IF keep[1] THEN <<Head(s)>> \o SelectRows(Tail(s), Tail(keep))
    ELSE SelectRows(Tail(s), Tail(keep))

----------------------------------------------------------------------------
(* CSV files as pandas reads and writes them *)

\* The cells an id column may hold, and those of them pandas parses as integers.
IdCells == {"1", "2", "x"}
IntCells == {"1", "2"}

\* The rows a prompts file may hold: the id cell and the text cell.
TextOf(c) == CASE c = "1" -> <<"o", "n", "e">>
               [] c = "2" -> <<"t", "w", "o">>
               [] OTHER   -> <<"e", "x">>

PromptRow(c) == [id |-> c, text |-> TextOf(c)]

\* pandas.read_csv on one column: int64 when every cell is an integer
\* literal, object (str) otherwise.  A value is <<dtype, digits or text>>.
read_csv_column(cells) ==
    IF cells # <<>> /\ \A k \in DOMAIN cells : cells[k] \in IntCells
    THEN [k \in DOMAIN cells |-> <<"int", cells[k]>>]
    ELSE [k \in DOMAIN cells |-> <<"str", cells[k]>>]

\* DataFrame.to_csv on one id value: str(value).
to_csv_cell(v) == v[2]

HeaderRow == [id |-> "id", prompt |-> <<"prompt">>, grok_reply |-> <<"grok_reply">>]

OldReply == <<"o", "l", "d">>

\* The reply a results file holds for an id: a reply of an earlier run, or
\* for the id 2 the 'Error:' text the earlier run recorded for it.
OldReplyOf(c) == IF c = "2" THEN <<"Error:", "No response received">> ELSE OldReply

OldRecord(c) == [id |-> c, prompt |-> TextOf(c), grok_reply |-> OldReplyOf(c)]

\* The id cells of the data lines of a results file.
IdCellsOf(lines) == [k \in 1..(Len(lines) - 1) |-> lines[k + 1].id]

\* The data lines of a results file (every line but the header).
Records(lines) == IF lines = <<>> THEN <<>> ELSE Tail(lines)

\* load_existing_results: the set of ids read back from the results file;
\* empty when the file is absent, or when read_csv or the 'id' lookup raise.
load_existing_results(exists, lines) ==
    IF ~exists THEN {}
    ELSE IF lines = <<>> THEN {}
    ELSE IF lines[1].id # "id" THEN {}
    ELSE Range(read_csv_column(IdCellsOf(lines)))

----------------------------------------------------------------------------
(* process_prompt *)

NoResponse == <<"Error:", "No response received">>
ReplyText == <<"h", "i">>

startswith_Error(response) == response # <<>> /\ response[1] = "Error:"

\* What one attempt of process_prompt runs into.
AttemptOutcomes ==
    {[kind |-> "ui_error", response |-> <<"failed">>],
     [kind |-> "newconv_fail", response |-> <<>>],
     [kind |-> "input_fail", response |-> <<>>],
     [kind |-> "exception", response |-> <<>>],
     [kind |-> "response", response |-> NoResponse],
     [kind |-> "response", response |-> ReplyText]}

ResultRecord(prompt_id, prompt_text, reply) ==
    [id |-> prompt_id, prompt |-> prompt_text, grok_reply |-> reply]

\* config["retry_delay"] as config.json holds it: a number of seconds, or a
\* value that is no number ("x": a string; null or a list do the same).
RetryDelays == {"1", "x"}

Seconds == {"1"}

\* await asyncio.sleep(seconds) raises TypeError when seconds is no number.
sleep_raises(seconds) == seconds \notin Seconds

\* What a call of process_prompt comes to for its caller: a record it
\* returns, or an exception raised past it.
Returned(rec) == [raised |-> FALSE, record |-> rec]
Raised(prompt_id, prompt_text) ==
    [raised |-> TRUE, record |-> ResultRecord(prompt_id, prompt_text, <<>>)]

\* What an attempt can run into under the configuration.  With a
\* retry_delay that is no number and two passes or more, the loops of
\* start_new_conversation, try_voice_mode and send_text_input raise on the
\* sleep after their first failed pass and never return False.
AttemptOutcomesOf(maxr, delay) ==
    IF sleep_raises(delay) /\ maxr >= 2
    THEN {o \in AttemptOutcomes : o.kind \notin {"newconv_fail", "input_fail"}}
    ELSE AttemptOutcomes

\* The except clause of process_prompt: the exception is printed; with an
\* attempt left retry_delay is slept, outside the try block, and the loop
\* goes on; after the last attempt the loop simply ends.
attempt_exception(retry, again, slept) == IF retry THEN slept ELSE again

RECURSIVE attempt_loop(_, _, _, _, _, _)
attempt_loop(prompt_id, prompt_text, script, att, maxr, delay) ==
    IF att >= maxr
    THEN Returned(ResultRecord(prompt_id, prompt_text,
                      <<"Error:", "Failed after attempts", ToString(maxr)>>))
    ELSE LET o == script[att + 1]
             retry == att < maxr - 1
             again == attempt_loop(prompt_id, prompt_text, script, att + 1, maxr, delay)
             \* await asyncio.sleep(self.config["retry_delay"]); continue.
             \* A sleep that raises inside the try block is caught by the
             \* except clause, which sleeps retry_delay again: raised past.
             slept == IF sleep_raises(delay) THEN Raised(prompt_id, prompt_text)
                      ELSE again
         IN CASE o.kind = "ui_error" ->
                    IF retry THEN again
                    ELSE Returned(ResultRecord(prompt_id, prompt_text,
                             <<"Error:", "Persistent UI error - ">> \o o.response))
              [] o.kind = "newconv_fail" ->
                    IF retry THEN slept
                    ELSE Returned(ResultRecord(prompt_id, prompt_text,
                             <<"Error:", "Could not start new conversation">>))
              [] o.kind = "input_fail" ->
                    IF retry THEN slept
                    ELSE Returned(ResultRecord(prompt_id, prompt_text,
                             <<"Error:", "Failed to send input after retries">>))
              [] o.kind = "response" ->
                    IF startswith_Error(o.response) /\ retry THEN slept
                    ELSE Returned(ResultRecord(prompt_id, prompt_text, o.response))
              [] o.kind = "exception" ->
                    attempt_exception(retry, again, slept)

process_prompt_mut(prompt_id, prompt_text, script, maxr, delay) ==
    LET r == attempt_loop(prompt_id, prompt_text, script, 0, maxr, delay)
    IN [r EXCEPT !.record = ResultRecord(prompt_id, <<>>, r.record.grok_reply)]

\* process_prompt: the record of one prompt, given what each attempt runs into.
process_prompt(prompt_id, prompt_text, script, maxr, delay) ==
    attempt_loop(prompt_id, prompt_text, script, 0, maxr, delay)

----------------------------------------------------------------------------
(* Idle values: a component that a specification does not run *)

DefaultConfig ==
    [min_response_length |-> 0, max_response_chars |-> 1,
     required_stable_checks |-> 1, max_wait_time |-> 1,
     stabilization_check_interval |-> 1]

IdleWait ==
    /\ w_pc = "idle"
    /\ cfg = DefaultConfig
    /\ last_text = <<>>
    /\ stable_count = 0
    /\ response_started = FALSE
    /\ elapsed = 0
    /\ w_result = <<>>
    /\ w_exit = "none"
    /\ w_last_poll = "none"
    /\ obs_prev = <<>>
    /\ held = 0
    /\ phase = "empty"
    /\ grew = 0
    /\ ever_long = FALSE
    /\ rate_polls = 0
    /\ obs_long = <<>>
    /\ w_view = [error_msg |-> <<>>, hard |-> <<>>, gone |-> FALSE]

IdleResolve ==
    /\ rs_pc = "idle"
    /\ page = [elements |-> <<>>, matches |-> <<>>, bad |-> {}]
    /\ fe_selector = 0
    /\ fe_result = 0
    /\ rs_found = <<>>

\* The values of an attempt before its calls are made.
NotCalled ==
    [called |-> FALSE, ok |-> FALSE, raised |-> FALSE, clicks |-> 0, gotos |-> 0,
     submits |-> 0, spoken |-> FALSE, passes |-> 0, delays |-> 0, fails |-> 0,
     last |-> "none"]

NoOutcome == [kind |-> "none", response |-> <<>>]

NoPrev == [kind |-> "none", response |-> <<>>, reloads |-> 0]

NoArgs == [id |-> <<"str", "">>, text |-> <<>>]

IdleAttempt ==
    /\ a_pc = "idle"
    /\ a_cfg = [max_retries |-> 1, retry |-> FALSE, retry_delay |-> "1"]
    /\ a_thread = [count |-> 0, raises |-> FALSE]
    /\ nc = NotCalled
    /\ voice = NotCalled
    /\ tts = NotCalled
    /\ typed = NotCalled
    /\ input_success = FALSE
    /\ a_reloads = 0
    /\ exit_voice = FALSE
    /\ a_outcome = NoOutcome
    /\ a_attempt = 0
    /\ a_args = NoArgs
    /\ a_prev = NoPrev
    /\ p_return = ResultRecord(NoArgs.id, NoArgs.text, <<>>)

IdleDetect ==
    /\ d_pc = "idle"
    /\ d_alerts = [raises |-> FALSE, elements |-> <<>>]
    /\ d_result = <<>>

IdleRun ==
    /\ r_pc = "idle"
    /\ resume = FALSE
    /\ prompts_file = [kind |-> "missing", rows |-> <<>>]
    /\ max_retries = 1
    /\ retry_delay = "1"
    /\ sink_exists = FALSE
    /\ sink_lines = <<>>
    /\ sink0_exists = FALSE
    /\ sink0_lines = <<>>
    /\ completed_ids = {}
    /\ df = <<>>
    /\ i = 0
    /\ attempt = 0
    /\ result = ResultRecord(<<"str", "">>, <<>>, <<>>)
    /\ results = <<>>
    /\ started = <<>>
    /\ run_fail = "none"
    /\ success = FALSE
    /\ exit_status = -1

----------------------------------------------------------------------------
(* run_automation and main *)

PromptFiles ==
    {[kind |-> "missing", rows |-> <<>>],
     [kind |-> "no_text_column", rows |-> <<>>]}
    \cup {[kind |-> "ok", rows |-> [k \in DOMAIN s |-> PromptRow(s[k])]] :
            s \in {t \in SeqsUpTo(IdCells, MaxPrompts) : NoDup(t)}}

OldSinks ==
    {<<HeaderRow>> \o [k \in DOMAIN s |-> OldRecord(s[k])] : s \in SeqsUpTo(IdCells, MaxOld)}

\* A results file that exists and holds nothing (it was not written by a run).
EmptyFile == <<>>

InitRun ==
    /\ r_pc = "main"
    /\ resume \in BOOLEAN
    /\ prompts_file \in PromptFiles
    /\ max_retries \in 1..MaxRetriesCfg
    /\ retry_delay \in RetryDelays
    /\ \/ sink_exists = FALSE /\ sink_lines = <<>>
       \/ sink_exists = TRUE /\ sink_lines \in OldSinks \cup {EmptyFile}
    /\ sink0_exists = sink_exists
    /\ sink0_lines = sink_lines
    /\ completed_ids = {}
    /\ df = <<>>
    /\ i = 0
    /\ attempt = 0
    /\ result = ResultRecord(<<"str", "">>, <<>>, <<>>)
    /\ results = <<>>
    /\ started = <<>>
    /\ run_fail = "none"
    /\ success = FALSE
    /\ exit_status = -1
    /\ IdleWait
    /\ IdleResolve
    /\ IdleAttempt
    /\ IdleDetect

\* pd.read_csv(prompts_file): the rows with the id column as pandas types it.
read_prompts(rows) ==
    LET ids == read_csv_column([k \in DOMAIN rows |-> rows[k].id])
    IN [k \in DOMAIN rows |-> [id |-> ids[k], text |-> rows[k].text]]

\* df[~df['id'].isin(completed_ids)]
filter_completed(frame, completed) ==
    SelectRows(frame, [k \in DOMAIN frame |-> frame[k].id \notin completed])

\* main: GrokAutomator() raises when config.json cannot be loaded; the
\* exception leaves main and the interpreter exits with status 1.
MainConfigError ==
    /\ r_pc = "main"
    /\ r_pc' = "exited"
    /\ run_fail' = "config"
    /\ exit_status' = 1
    /\ UNCHANGED <<resume, prompts_file, max_retries, retry_delay,
                   sink_exists, sink_lines,
                   sink0_exists, sink0_lines, completed_ids, df, i, attempt,
                   result, results, started, success>>
    /\ UNCHANGED not_run_vars

\* run_automation up to the connection: the resume set is read first.
RunStart ==
    /\ r_pc = "main"
    /\ completed_ids' = IF resume THEN load_existing_results(sink_exists, sink_lines)
                        ELSE {}
    /\ attempt' = 0
    /\ r_pc' = "connect"
    /\ UNCHANGED <<resume, prompts_file, max_retries, retry_delay,
                   sink_exists, sink_lines,
                   sink0_exists, sink0_lines, df, i, result, results, started,
                   run_fail, success, exit_status>>
    /\ UNCHANGED not_run_vars

\* connect_to_chrome_with_retry: one attempt that connects.
ConnectOk ==
    /\ r_pc = "connect"
    /\ r_pc' = "load"
    /\ UNCHANGED <<resume, prompts_file, max_retries, retry_delay,
                   sink_exists, sink_lines,
                   sink0_exists, sink0_lines, completed_ids, df, i, attempt,
                   result, results, started, run_fail, success, exit_status>>
    /\ UNCHANGED not_run_vars

connect_retry_mut(att, maxr) == att < maxr

\* connect_to_chrome_with_retry, in the except clause: attempt < max_retries - 1,
\* another attempt follows the failed one.
connect_retry(att, maxr) == att < maxr - 1

\* connect_to_chrome_with_retry: one attempt that raises.  With an attempt
\* left the except clause sleeps retry_delay (line 225): a sleep that raises
\* is raised past run_automation, which calls it outside its try block, and
\* past main, and the process exits with status 1.
ConnectFail ==
    /\ r_pc = "connect"
    /\ IF connect_retry(attempt, max_retries)
       THEN IF sleep_raises(retry_delay)
            THEN /\ r_pc' = "exited"
                 /\ run_fail' = "connect_sleep"
                 /\ exit_status' = 1
                 /\ success' = FALSE
                 /\ UNCHANGED attempt
            ELSE /\ attempt' = attempt + 1
                 /\ UNCHANGED <<r_pc, run_fail, success, exit_status>>
       ELSE /\ r_pc' = "returned"
            /\ run_fail' = "connect"
            /\ success' = FALSE
            /\ UNCHANGED <<attempt, exit_status>>
    /\ UNCHANGED <<resume, prompts_file, max_retries, retry_delay,
                   sink_exists, sink_lines,
                   sink0_exists, sink0_lines, completed_ids, df, i, result,
                   results, started>>
    /\ UNCHANGED not_run_vars

\* run_automation: read and validate the prompts, drop the completed ones.
LoadPrompts ==
    /\ r_pc = "load"
    /\ IF prompts_file.kind # "ok"
       THEN /\ r_pc' = "returned"
            /\ run_fail' = "load"
            /\ success' = FALSE
            /\ UNCHANGED df
       ELSE LET frame == read_prompts(prompts_file.rows)
                pending == IF completed_ids # {}
                           THEN filter_completed(frame, completed_ids)
                           ELSE frame
            IN /\ df' = pending
               /\ IF completed_ids # {} /\ Len(pending) = 0
                  THEN r_pc' = "returned" /\ success' = TRUE
                  ELSE r_pc' = "loop" /\ success' = FALSE
               /\ UNCHANGED run_fail
    /\ i' = 0
    /\ results' = <<>>
    /\ UNCHANGED <<resume, prompts_file, max_retries, retry_delay,
                   sink_exists, sink_lines,
                   sink0_exists, sink0_lines, completed_ids, attempt, result,
                   started, exit_status>>
    /\ UNCHANGED not_run_vars

\* What the progress display of one pass of the for loop runs into (lines
\* 594-604): nothing, or an exception: config["progress_bar_length"] is
\* missing or is no number (596-598), or row['text'] is no string and cannot
\* be sliced (603: read_csv reads an empty cell as NaN).
DisplayOutcomes == {"ok", "raises"}

\* The head of the for loop.  The progress display comes first: an exception
\* of it is caught by the except clause of run_automation, which returns
\* False.  Then the row is handed to process_prompt; when no row is left the
\* loop is over and run_automation returns True.
LoopNext ==
    /\ r_pc = "loop"
    /\ IF i < Len(df)
       THEN \E o \in DisplayOutcomes :
               IF o = "raises"
               THEN /\ r_pc' = "returned"
                    /\ run_fail' = "display"
                    /\ success' = FALSE
                    /\ UNCHANGED started
               ELSE /\ r_pc' = "process"
                    /\ started' = Append(started, df[i + 1].id)
                    /\ UNCHANGED <<success, run_fail>>
       ELSE /\ r_pc' = "returned"
            /\ success' = TRUE
            /\ UNCHANGED <<started, run_fail>>
    /\ UNCHANGED <<resume, prompts_file, max_retries, retry_delay,
                   sink_exists, sink_lines,
                   sink0_exists, sink0_lines, completed_ids, df, i, attempt,
                   result, results, exit_status>>
    /\ UNCHANGED not_run_vars

\* result = await self.process_prompt(row['id'], row['text']); an exception
\* raised past process_prompt is caught by the except clause of
\* run_automation (632-634), which returns False.
ProcessPrompt ==
    /\ r_pc = "process"
    /\ \E script \in [1..max_retries -> AttemptOutcomesOf(max_retries, retry_delay)] :
          LET r == process_prompt(df[i + 1].id, df[i + 1].text, script,
                                  max_retries, retry_delay)
          IN IF r.raised
             THEN /\ r_pc' = "returned"
                  /\ run_fail' = "prompt"
                  /\ UNCHANGED result
             ELSE /\ result' = r.record
                  /\ r_pc' = "save"
                  /\ UNCHANGED run_fail
    /\ success' = FALSE
    /\ UNCHANGED <<resume, prompts_file, max_retries, retry_delay,
                   sink_exists, sink_lines,
                   sink0_exists, sink0_lines, completed_ids, df, i, attempt,
                   results, started, exit_status>>
    /\ UNCHANGED not_run_vars

\* The line DataFrame([result]).to_csv writes.
csv_line(rec) == [id |-> to_csv_cell(rec.id), prompt |-> rec.prompt,
                  grok_reply |-> rec.grok_reply]

save_result_mut(exists, lines, rec) == <<HeaderRow, csv_line(rec)>>

save_result_header_mut(exists, lines, rec) ==
    IF ~exists THEN <<HeaderRow, csv_line(rec)>>
    ELSE lines \o <<HeaderRow, csv_line(rec)>>

\* The results file after one result is saved: created with a header when
\* absent, appended to without a header otherwise.
save_result(exists, lines, rec) ==
    IF ~exists THEN <<HeaderRow, csv_line(rec)>>
    ELSE Append(lines, csv_line(rec))

\* What to_csv runs into (lines 613, 616): the line is written, or the
\* results file cannot be opened for writing and the call raises.
SaveOutcomes == {"ok", "raises"}

\* self.results.append(result) and the immediate save of the result; an
\* exception of to_csv is caught by the except clause of run_automation,
\* which returns False with the result appended to self.results only.
SaveResult ==
    /\ r_pc = "save"
    /\ results' = Append(results, result)
    /\ \E o \in SaveOutcomes :
          IF o = "raises"
          THEN /\ r_pc' = "returned"
               /\ run_fail' = "save"
               /\ UNCHANGED <<sink_lines, sink_exists, i>>
          ELSE /\ sink_lines' = save_result(sink_exists, sink_lines, result)
               /\ sink_exists' = TRUE
               /\ i' = i + 1
               /\ r_pc' = "loop"
               /\ UNCHANGED run_fail
    /\ UNCHANGED <<resume, prompts_file, max_retries, retry_delay,
                   sink0_exists, sink0_lines,
                   completed_ids, df, attempt, result, started,
                   success, exit_status>>
    /\ UNCHANGED not_run_vars

\* main after run_automation returned: both branches only print, cleanup
\* swallows its exceptions, and main returns normally.
main_exit_status(ok) == 0

MainExit ==
    /\ r_pc = "returned"
    /\ exit_status' = main_exit_status(success)
    /\ r_pc' = "exited"
    /\ UNCHANGED <<resume, prompts_file, max_retries, retry_delay,
                   sink_exists, sink_lines,
                   sink0_exists, sink0_lines, completed_ids, df, i, attempt,
                   result, results, started, run_fail, success>>
    /\ UNCHANGED not_run_vars

NextRun ==
    \/ MainConfigError
    \/ RunStart
    \/ ConnectOk
    \/ ConnectFail
    \/ LoadPrompts
    \/ LoopNext
    \/ ProcessPrompt
    \/ SaveResult
    \/ MainExit

SpecRun == InitRun /\ [][NextRun]_vars

----------------------------------------------------------------------------
(* Texts of the page: stripping, lower-casing, substring tests *)

Min(a, b) == IF a < b THEN a ELSE b

\* text[:n]
Truncate(text, n) == SubSeq(text, 1, Min(n, Len(text)))

RECURSIVE lstrip(_)
lstrip(text) ==
    IF text # <<>> /\ Head(text) = " " THEN lstrip(Tail(text)) ELSE text

RECURSIVE rstrip(_)
rstrip(text) ==
    IF text # <<>> /\ text[Len(text)] = " "
    THEN rstrip(SubSeq(text, 1, Len(text) - 1))
    ELSE text

\* str.strip()
strip(text) == rstrip(lstrip(text))

\* str.lower() on one word of a banner.
lower_word(w) == CASE w = "Grok" -> "grok"
                   [] w = "Rate Limit" -> "rate limit"
                   [] w = "Too Many" -> "too many"
                   [] OTHER -> w

\* needle in text.lower(), for a banner text given as a sequence of words.
contains_lower(text, needle) == \E k \in DOMAIN text : lower_word(text[k]) = needle

\* Python's None, and the empty string, for a text.
None == <<>>

----------------------------------------------------------------------------
(* detect_ui_errors *)

MaxBanners == 2

BannerTexts ==
    {<<" ">>, <<" ", "failed">>, <<"Grok", "failed">>, <<"Rate Limit">>,
     <<"too many">>, <<"grok", "rate limit">>}

\* An element the error selector matches: is_visible(), inner_text(), and
\* whether a call on the element raises.
Banners == [visible : BOOLEAN, text : BannerTexts, raises : BOOLEAN]

BannerPages == [raises : BOOLEAN, elements : SeqsUpTo(Banners, MaxBanners)]

first_error_mut(elements) ==
    IF elements = <<>> THEN None
    ELSE LET e == Head(elements)
         IN IF e.raises THEN None
            ELSE IF e.visible /\ strip(e.text) # <<>> /\ ~contains_lower(e.text, "grok")
            THEN strip(e.text)
            ELSE None

\* The for loop of detect_ui_errors; an element whose call raises ends it in
\* the except clause.
RECURSIVE first_error(_)
first_error(elements) ==
    IF elements = <<>> THEN None
    ELSE LET e == Head(elements)
         IN IF e.raises THEN None
            ELSE IF e.visible /\ strip(e.text) # <<>> /\ ~contains_lower(e.text, "grok")
            THEN strip(e.text)
            ELSE first_error(Tail(elements))

\* detect_ui_errors: the stripped text of the first visible banner that is
\* not blank and does not mention grok; None when there is none or the query raises.
detect_ui_errors(alerts) ==
    IF alerts.raises THEN None ELSE first_error(alerts.elements)

\* The values detect_ui_errors can return.
DetectResults == {detect_ui_errors(alerts) : alerts \in BannerPages}

InitDetect ==
    /\ IdleRun
    /\ IdleWait
    /\ IdleResolve
    /\ IdleAttempt
    /\ d_pc = "called"
    /\ d_alerts \in BannerPages
    /\ d_result = <<>>

\* One call of detect_ui_errors.
DetectUiErrors ==
    /\ d_pc = "called"
    /\ d_result' = detect_ui_errors(d_alerts)
    /\ d_pc' = "returned"
    /\ UNCHANGED d_alerts
    /\ UNCHANGED not_detect_vars

NextDetect == DetectUiErrors

SpecDetect == InitDetect /\ [][NextDetect]_vars

----------------------------------------------------------------------------
(* wait_for_response *)

MaxTextLen == 4
MaxMinLen == 1
MaxCap == 4
MaxStable == 2
MaxWaitPolls == 4
IntervalCfg == 10
RateLimitSleep == 30

Chars == {"a", " "}

\* What inner_text() of the last response element may be.
RawTexts == SeqsUpTo(Chars, MaxTextLen)

\* The values get_latest_response can return: the stripped text, or "" when
\* there is no element or the query raises.
Snapshots == {strip(raw) : raw \in RawTexts}

Configs ==
    {[min_response_length |-> mn, max_response_chars |-> mx,
      required_stable_checks |-> n, max_wait_time |-> IntervalCfg * k,
      stabilization_check_interval |-> IntervalCfg] :
        mn \in 0..MaxMinLen, mx \in (MaxMinLen + 1)..MaxCap,
        n \in 1..MaxStable, k \in 1..MaxWaitPolls}

LostThread == <<"Error:", "Lost thread view during response">>

\* f"Error: {error_msg}"
ErrorOf(error_msg) == <<"Error:">> \o error_msg

is_rate_limit_mut(error_msg) == TRUE

\* "rate limit" in error_msg.lower() or "too many" in error_msg.lower()
is_rate_limit(error_msg) ==
    contains_lower(error_msg, "rate limit") \/ contains_lower(error_msg, "too many")

\* error_msg and "grok" not in error_msg.lower()
is_ui_error(error_msg) == error_msg # None /\ ~contains_lower(error_msg, "grok")

exceeds_min_mut(current_text, c) ==
    current_text # <<>> /\ Len(current_text) >= c.min_response_length

\* current_text and len(current_text) > self.config["min_response_length"]
exceeds_min(current_text, c) ==
    current_text # <<>> /\ Len(current_text) > c.min_response_length

capped_mut(current_text, max_chars) == current_text

\* current_text[:max_chars]
capped(current_text, max_chars) == Truncate(current_text, max_chars)

is_stable_mut(count, c) == count > c.required_stable_checks

\* stable_count >= self.config["required_stable_checks"]
is_stable(count, c) == count >= c.required_stable_checks

\* The local state of wait_for_response.
WaitState ==
    [pc |-> w_pc, last_text |-> last_text, stable_count |-> stable_count,
     response_started |-> response_started, elapsed |-> elapsed,
     result |-> w_result, exit |-> w_exit]

Return(st, value, exit) == [st EXCEPT !.pc = "done", !.result = value, !.exit = exit]

Sleep(st, seconds) == [st EXCEPT !.elapsed = @ + seconds]

cooldown_mut(st) ==
    Sleep([st EXCEPT !.stable_count = 0, !.last_text = <<>>], RateLimitSleep)

\* await asyncio.sleep(30); continue
cooldown(st) == Sleep(st, RateLimitSleep)

lost_thread_mut(has_msgs, reply_started) == ~has_msgs

\* not await self.has_messages() and response_started
lost_thread(has_msgs, reply_started) == ~has_msgs /\ reply_started

hits_cap_mut(current_text, c) == Len(current_text) > c.max_response_chars

\* len(current_text) >= max_chars
hits_cap(current_text, c) == Len(current_text) >= c.max_response_chars

\* One pass through the body of the while loop, for what the page shows:
\* error_msg is what detect_ui_errors returns, has_messages what has_messages
\* returns, current_text what get_latest_response returns.
wait_poll(st, c, error_msg, has_messages, current_text) ==
    IF is_ui_error(error_msg)
    THEN IF is_rate_limit(error_msg)
         THEN cooldown(st)
         ELSE Return(st, ErrorOf(error_msg), "error")
    ELSE IF lost_thread(has_messages, st.response_started)
    THEN Return(st, LostThread, "lost")
    ELSE IF exceeds_min(current_text, c)
    THEN LET s1 == [st EXCEPT !.response_started = TRUE]
         IN IF hits_cap(current_text, c)
            THEN Return(s1, capped(current_text, c.max_response_chars), "cap")
            ELSE IF current_text = s1.last_text
            THEN LET s2 == [s1 EXCEPT !.stable_count = @ + 1]
                 IN IF is_stable(s2.stable_count, c)
                    THEN Return(s2, current_text, "stable")
                    ELSE Sleep(s2, c.stabilization_check_interval)
            ELSE Sleep([s1 EXCEPT !.stable_count = 0, !.last_text = current_text],
                       c.stabilization_check_interval)
    ELSE Sleep(st, c.stabilization_check_interval)

wait_timeout_mut(st, c) == Return(st, NoResponse, "no_response")

\* The fallback after the while loop.
wait_timeout(st, c) ==
    IF st.last_text # <<>> /\ Len(st.last_text) > c.min_response_length
    THEN Return(st, IF Len(st.last_text) > c.max_response_chars
                    THEN Truncate(st.last_text, c.max_response_chars)
                    ELSE st.last_text, "timeout_text")
    ELSE Return(st, NoResponse, "no_response")

\* A banner that is visible, not blank, does not mention grok and does not
\* speak of throttling.
is_hard(e) ==
    /\ e.visible
    /\ strip(e.text) # <<>>
    /\ \A k \in DOMAIN e.text :
          lower_word(e.text[k]) \notin {"grok", "rate limit", "too many"}

\* The stripped text of the first such banner of the page, None without one.
RECURSIVE first_hard(_)
first_hard(elements) ==
    IF elements = <<>> THEN None
    ELSE IF is_hard(Head(elements)) THEN strip(Head(elements).text)
    ELSE first_hard(Tail(elements))

\* What the banners of a page come to on one poll: what detect_ui_errors
\* returns, and the first hard banner the page shows.
PollViews ==
    {[error_msg |-> detect_ui_errors(alerts), hard |-> first_hard(alerts.elements)] :
        alerts \in BannerPages}

keeps_waiting_mut(now, c) == now <= c.max_wait_time

\* while (asyncio.get_event_loop().time() - start_time) < max_wait_time
keeps_waiting(now, c) == now < c.max_wait_time

\* What is remembered of a poll: its banners, and whether has_messages
\* returned False on it after the reply had started.
Viewed(view, gone) ==
    [error_msg |-> view.error_msg, hard |-> view.hard, gone |-> gone]

InitWait ==
    /\ IdleRun
    /\ IdleResolve
    /\ IdleAttempt
    /\ IdleDetect
    /\ w_pc = "polling"
    /\ cfg \in Configs
    /\ last_text = <<>>
    /\ stable_count = 0
    /\ response_started = FALSE
    /\ elapsed = 0
    /\ w_result = <<>>
    /\ w_exit = "none"
    /\ w_last_poll = "none"
    /\ obs_prev = <<>>
    /\ held = 0
    /\ phase = "empty"
    /\ grew = 0
    /\ ever_long = FALSE
    /\ rate_polls = 0
    /\ obs_long = <<>>
    /\ w_view = [error_msg |-> <<>>, hard |-> <<>>, gone |-> FALSE]

SetWaitState(st) ==
    /\ w_pc' = st.pc
    /\ last_text' = st.last_text
    /\ stable_count' = st.stable_count
    /\ response_started' = st.response_started
    /\ elapsed' = st.elapsed
    /\ w_result' = st.result
    /\ w_exit' = st.exit

\* The shape of the snapshots read so far, after one more is read: "empty"
\* while all were empty, "growing" while each was longer than the one before,
\* "holding" once a non-empty one repeats, "broken" for anything else.
NextPhase(cur) ==
    CASE phase = "empty" /\ cur = <<>> -> "empty"
      [] phase = "empty" /\ cur # <<>> -> "growing"
      [] phase = "growing" /\ Len(cur) > Len(obs_prev) -> "growing"
      [] phase \in {"growing", "holding"} /\ cur = obs_prev -> "holding"
      [] OTHER -> "broken"

\* What stands for the reply snapshot on a poll that does not read it.
NotRead == <<>>

\* A poll on which a UI error is detected: the rate-limit cooldown, or the
\* return of the error.  The reply snapshot is not read on it.
PollError ==
    /\ w_pc = "polling"
    /\ keeps_waiting(elapsed, cfg)
    /\ \E view \in PollViews, hm \in BOOLEAN :
          LET error_msg == view.error_msg
          IN /\ is_ui_error(error_msg)
             /\ SetWaitState(wait_poll(WaitState, cfg, error_msg, hm, NotRead))
             /\ w_last_poll' = IF is_rate_limit(error_msg) THEN "rate_limited" ELSE "error"
             /\ rate_polls' = IF is_rate_limit(error_msg) THEN rate_polls + 1 ELSE rate_polls
             /\ w_view' = Viewed(view, ~hm /\ response_started)
    /\ phase' = "broken"
    /\ UNCHANGED <<cfg, obs_prev, held, grew, ever_long, obs_long>>
    /\ UNCHANGED not_wait_vars

\* A poll on which the thread view is found lost, before the reply
\* snapshot is read.
PollLost ==
    /\ w_pc = "polling"
    /\ keeps_waiting(elapsed, cfg)
    /\ response_started
    /\ \E view \in PollViews :
          /\ ~is_ui_error(view.error_msg)
          /\ SetWaitState(wait_poll(WaitState, cfg, view.error_msg, FALSE, NotRead))
          /\ w_view' = Viewed(view, TRUE)
    /\ w_last_poll' = "lost"
    /\ phase' = "broken"
    /\ UNCHANGED <<cfg, obs_prev, held, grew, ever_long, rate_polls, obs_long>>
    /\ UNCHANGED not_wait_vars

\* A poll that reads the reply snapshot.
PollRead ==
    /\ w_pc = "polling"
    /\ keeps_waiting(elapsed, cfg)
    /\ \E view \in PollViews, hm \in BOOLEAN, cur \in Snapshots :
          /\ ~is_ui_error(view.error_msg)
          /\ hm \/ ~response_started
          /\ SetWaitState(wait_poll(WaitState, cfg, view.error_msg, hm, cur))
          /\ w_view' = Viewed(view, FALSE)
          /\ w_last_poll' = "read"
          /\ obs_prev' = cur
          /\ held' = IF w_last_poll = "read" /\ cur = obs_prev THEN held + 1 ELSE 0
          /\ phase' = NextPhase(cur)
          /\ grew' = IF obs_prev # <<>> /\ Len(cur) > Len(obs_prev)
                     THEN Min(grew + 1, 2) ELSE grew
          /\ ever_long' = (ever_long \/ Len(cur) > cfg.min_response_length)
          /\ obs_long' = IF Len(cur) > cfg.min_response_length THEN cur ELSE obs_long
    /\ UNCHANGED <<cfg, rate_polls>>
    /\ UNCHANGED not_wait_vars

\* The while condition fails: the fallback timeout handling.
WaitTimeout ==
    /\ w_pc = "polling"
    /\ ~keeps_waiting(elapsed, cfg)
    /\ SetWaitState(wait_timeout(WaitState, cfg))
    /\ UNCHANGED <<cfg, w_last_poll, obs_prev, held, phase, grew, ever_long,
                   rate_polls, obs_long, w_view>>
    /\ UNCHANGED not_wait_vars

NextWait ==
    \/ PollError
    \/ PollLost
    \/ PollRead
    \/ WaitTimeout

SpecWait == InitWait /\ [][NextWait]_vars

----------------------------------------------------------------------------
(* find_element and discover_elements *)

MaxElems == 2
MaxSelectors == 2

\* An element of a page: what is_visible() and is_enabled() answer, and the
\* query on it that raises: none, is_visible(), is_enabled(), or one of the
\* queries of its details (evaluate, inner_text, get_attribute,
\* bounding_box), which are made of a visible element only.  A query that
\* raises has no answer (FALSE stands for it), and is_enabled() of a hidden
\* element is left as not raising: find_element does not make the query, and
\* discover_elements leaves the element out whether the query raises or not.
PageElements ==
    {e \in [visible : BOOLEAN, enabled : BOOLEAN,
            raises : {"none", "is_visible", "is_enabled", "details"}] :
        /\ e.raises = "is_visible" => (~e.visible /\ ~e.enabled)
        /\ e.raises = "is_enabled" => (e.visible /\ ~e.enabled)
        /\ e.raises = "details" => e.visible}

\* The selectors of the ordered list whose query raises: none or one.
BadSelectors == {{}} \cup {{sel} : sel \in 1..MaxSelectors}

\* locator(selector).all(): the matches of a selector in document order.
all_matches(pg, sel) ==
    SelectSeq([e \in 1..Len(pg.elements) |-> e], LAMBDA e : e \in pg.matches[sel])

\* find_element: the first match of the selector when it is visible and
\* enabled, None (0) otherwise and when a query raises: that of the
\* selector, is_visible() or, for a visible element, is_enabled().  The
\* details of the element are not queried.
find_element(pg, sel) ==
    LET ms == all_matches(pg, sel)
    IN IF sel \in pg.bad THEN 0
       ELSE IF ms = <<>> THEN 0
       ELSE LET e == pg.elements[ms[1]]
            IN IF e.raises \in {"is_visible", "is_enabled"} THEN 0
               ELSE IF e.visible /\ e.enabled THEN ms[1]
               ELSE 0

\* The element_info entries of one selector: one per visible match none of
\* whose queries raises, with the position of the match among the matches
\* of the selector; a match with a query that raises is left out by the
\* inner except clause and the loop goes on.
RECURSIVE selector_entries(_, _, _, _)
selector_entries(pg, sel, ms, k) ==
    IF k > Len(ms) THEN <<>>
    ELSE (IF pg.elements[ms[k]].raises = "none" /\ pg.elements[ms[k]].visible
          THEN <<[selector |-> sel, index |-> k - 1, element |-> ms[k],
                  visible |-> TRUE, enabled |-> pg.elements[ms[k]].enabled]>>
          ELSE <<>>)
         \o selector_entries(pg, sel, ms, k + 1)

RECURSIVE discover_from(_, _)
discover_from(pg, sel) ==
    IF sel > Len(pg.matches) THEN <<>>
    ELSE (IF sel \in pg.bad THEN <<>>
          ELSE selector_entries(pg, sel, all_matches(pg, sel), 1))
         \o discover_from(pg, sel + 1)

\* discover_elements: working_selectors, every visible match of every
\* selector whose probing raised nothing, selector by selector in the order
\* of potential_selectors.
discover_elements(pg) == discover_from(pg, 1)

InitResolve ==
    /\ IdleRun
    /\ IdleWait
    /\ IdleAttempt
    /\ IdleDetect
    /\ rs_pc = "start"
    /\ \E n \in 0..MaxElems :
          \E els \in [1..n -> PageElements],
             ms \in [1..MaxSelectors -> SUBSET (1..n)],
             b \in BadSelectors :
             page = [elements |-> els, matches |-> ms, bad |-> b]
    /\ fe_selector = 0
    /\ fe_result = 0
    /\ rs_found = <<>>

FindElement ==
    /\ rs_pc = "start"
    /\ \E sel \in 1..MaxSelectors :
          /\ fe_selector' = sel
          /\ fe_result' = find_element(page, sel)
    /\ rs_pc' = "found"
    /\ UNCHANGED <<page, rs_found>>
    /\ UNCHANGED not_resolve_vars

DiscoverElements ==
    /\ rs_pc = "start"
    /\ rs_found' = discover_elements(page)
    /\ rs_pc' = "discovered"
    /\ UNCHANGED <<page, fe_selector, fe_result>>
    /\ UNCHANGED not_resolve_vars

NextResolve ==
    \/ FindElement
    \/ DiscoverElements

SpecResolve == InitResolve /\ [][NextResolve]_vars

----------------------------------------------------------------------------
(* The calls of one attempt of process_prompt *)

MaxMessages == 1

has_messages_mut(thread) == thread.count > 0

\* has_messages: the page shows at least one message element; False when
\* the query raises.
has_messages(thread) == IF thread.raises THEN FALSE ELSE thread.count > 0

\* is_new_conversation: not has_messages().
is_new_conversation(thread) == ~has_messages(thread)

\* range(2) of the direct-navigation fallback of start_new_conversation.
NavAttempts == 2

Called == [NotCalled EXCEPT !.called = TRUE]

\* What one pass of the new-chat-button loop runs into: the button is not
\* found, the click raises, and after a click: the conversation is new, the
\* conversation is not new but the URL is the main page, neither.
ClickOutcomes == {"not_found", "click_raises", "new", "url_main", "stuck"}

\* What one direct navigation runs into: goto or the load wait raises, the
\* conversation is new after it, it is not.
NavOutcomes == {"raises", "new", "stuck"}

\* What the passes of a loop of at most n passes run into, one entry per
\* pass that is run: the loop is left at the first pass that runs into an
\* outcome of ending.
PassRuns(outcomes, ending, n) ==
    {s \in SeqsUpTo(outcomes, n) :
        /\ \A k \in 1..(Len(s) - 1) : s[k] \notin ending
        /\ Len(s) < n => (s # <<>> /\ s[Len(s)] \in ending)}

\* The same for a loop that sleeps retry_delay after each pass that did not
\* succeed while a pass is left: when that sleep raises, the loop is left at
\* its first pass whatever the pass runs into.
LoopRuns(outcomes, ending, n, delay) ==
    PassRuns(outcomes, IF sleep_raises(delay) /\ n >= 2 THEN outcomes ELSE ending, n)

\* start_new_conversation, the fallback: direct navigation, twice at most.
RECURSIVE navigate_loop(_, _, _)
navigate_loop(nav_script, att, res) ==
    IF att >= NavAttempts THEN [res EXCEPT !.ok = FALSE]
    ELSE LET r1 == [res EXCEPT !.gotos = @ + 1]
         IN IF nav_script[att + 1] = "new" THEN [r1 EXCEPT !.ok = TRUE]
            ELSE navigate_loop(nav_script, att + 1, r1)

\* start_new_conversation, the new chat button loop and then the fallback.
\* After a pass that did not succeed, with a pass left, retry_delay is slept
\* outside the try block: a sleep that raises is raised past the call.
RECURSIVE new_chat_loop(_, _, _, _, _, _)
new_chat_loop(click_script, nav_script, att, maxr, delay, res) ==
    IF att >= maxr THEN navigate_loop(nav_script, 0, res)
    ELSE LET o == click_script[att + 1]
             r1 == IF o = "not_found" THEN res ELSE [res EXCEPT !.clicks = @ + 1]
         IN IF o \in {"new", "url_main"} THEN [r1 EXCEPT !.ok = TRUE]
            ELSE IF att < maxr - 1 /\ sleep_raises(delay)
            THEN [r1 EXCEPT !.raised = TRUE]
            ELSE new_chat_loop(click_script, nav_script, att + 1, maxr, delay, r1)

start_new_conversation_mut(is_new, click_script, nav_script, maxr, delay) ==
    new_chat_loop(click_script, nav_script, 0, maxr, delay, Called)

\* start_new_conversation: True at once when is_new_conversation() holds.
start_new_conversation(is_new, click_script, nav_script, maxr, delay) ==
    IF is_new THEN [Called EXCEPT !.ok = TRUE]
    ELSE new_chat_loop(click_script, nav_script, 0, maxr, delay, Called)

\* What one pass of the loop of try_voice_mode or send_text_input runs into:
\* the element is not found, the click (or fill, or key press) raises, a UI
\* error shows after the action, none shows.
StepOutcomes == {"not_found", "raises", "ui_error", "ok"}

\* One pass of the loop of try_voice_mode or send_text_input, as the caller
\* can count it: the pass itself, what it ran into, and the sleep of
\* retry_delay that follows a pass that did not succeed while a pass is left
\* (a sleep that raises has not waited).
pass_outcome(res, o, att, maxr, delay) ==
    [res EXCEPT !.passes = @ + 1,
                !.last = o,
                !.fails = IF o = "ok" THEN @ ELSE @ + 1,
                !.delays = IF o # "ok" /\ att < maxr - 1 /\ ~sleep_raises(delay)
                           THEN @ + 1 ELSE @]

\* try_voice_mode: True on the first pass whose click is followed by no UI
\* error; a UI error on the last pass returns False, and so does the end of
\* the loop.  After a pass that did not succeed, with a pass left,
\* retry_delay is slept: outside the try block when the button was not
\* found, in the except clause when the click raised, and inside the try
\* block and then in the except clause after a UI error; a sleep that raises
\* is raised past the call.
RECURSIVE try_voice_loop(_, _, _, _, _)
try_voice_loop(script, att, maxr, delay, res) ==
    IF att >= maxr THEN [res EXCEPT !.ok = FALSE]
    ELSE LET o == script[att + 1]
             r0 == IF o = "not_found" THEN res ELSE [res EXCEPT !.clicks = @ + 1]
             r1 == pass_outcome(r0, o, att, maxr, delay)
         IN IF o = "ok" THEN [r1 EXCEPT !.ok = TRUE]
            ELSE IF att < maxr - 1
            THEN IF sleep_raises(delay) THEN [r1 EXCEPT !.raised = TRUE]
                 ELSE try_voice_loop(script, att + 1, maxr, delay, r1)
            ELSE IF o = "ui_error" THEN [r1 EXCEPT !.ok = FALSE]
            ELSE try_voice_loop(script, att + 1, maxr, delay, r1)

try_voice_mode_mut(script, maxr, delay) ==
    IF script[1] = "ok" THEN try_voice_loop(script, 0, maxr, delay, Called)
    ELSE [Called EXCEPT !.passes = 1, !.fails = 1, !.last = script[1]]

try_voice_mode(script, maxr, delay) == try_voice_loop(script, 0, maxr, delay, Called)

\* What generate_and_stream_tts runs into: the temporary file cannot be made
\* (raised past the call), the synthesis raises, the playback raises, the
\* sleep of transcription_wait_seconds after the playback raises, the
\* removal of the temporary file in the finally clause raises after a
\* playback to the end (raised past the call), none.
TtsOutcomes ==
    {"tempfile_raises", "synth_raises", "play_raises", "wait_raises",
     "unlink_raises", "ok"}

\* The outcomes that are raised past generate_and_stream_tts.
TtsRaisedPast == {"tempfile_raises", "unlink_raises"}

\* generate_and_stream_tts: True when the audio was synthesised, played to
\* its end and the transcription wait was slept; False when the synthesis,
\* the playback or that sleep raised.  The prompt is spoken to its end once
\* sd.wait() has returned.
generate_and_stream_tts(o) ==
    [Called EXCEPT !.ok = (o = "ok"),
                   !.spoken = (o \in {"ok", "wait_raises", "unlink_raises"})]

\* send_text_input: every pass that finds the text input calls click() on it
\* (the click, the fill or the key press may raise); each pass that gets past
\* the press of Enter submits the text; True on the first pass that is
\* followed by no UI error.  retry_delay is slept as in try_voice_mode.
RECURSIVE send_text_loop(_, _, _, _, _)
send_text_loop(script, att, maxr, delay, res) ==
    IF att >= maxr THEN [res EXCEPT !.ok = FALSE]
    ELSE LET o == script[att + 1]
             r0 == IF o \in {"ok", "ui_error"}
                   THEN [res EXCEPT !.clicks = @ + 1, !.submits = @ + 1]
                   ELSE IF o = "raises" THEN [res EXCEPT !.clicks = @ + 1]
                   ELSE res
             r1 == pass_outcome(r0, o, att, maxr, delay)
         IN IF o = "ok" THEN [r1 EXCEPT !.ok = TRUE]
            ELSE IF att < maxr - 1
            THEN IF sleep_raises(delay) THEN [r1 EXCEPT !.raised = TRUE]
                 ELSE send_text_loop(script, att + 1, maxr, delay, r1)
            ELSE IF o = "ui_error" THEN [r1 EXCEPT !.ok = FALSE]
            ELSE send_text_loop(script, att + 1, maxr, delay, r1)

send_text_input(script, maxr, delay) == send_text_loop(script, 0, maxr, delay, Called)

----------------------------------------------------------------------------
(* process_prompt call by call: the retry loop and the body of its try block *)

\* The arguments of process_prompt: the id and the text of a row of df.
PromptArgs ==
    {[id |-> <<"int", "1">>, text |-> TextOf("1")],
     [id |-> <<"str", "x">>, text |-> TextOf("x")]}

InitAttempt ==
    /\ IdleRun
    /\ IdleWait
    /\ IdleResolve
    /\ IdleDetect
    /\ a_pc = "loop"
    /\ a_cfg \in {[max_retries |-> m, retry |-> FALSE, retry_delay |-> d] :
                    m \in 0..MaxRetriesCfg, d \in RetryDelays}
    /\ a_thread = [count |-> 0, raises |-> FALSE]
    /\ a_attempt = 0
    /\ a_args \in PromptArgs
    /\ a_prev = NoPrev
    /\ p_return = ResultRecord(NoArgs.id, NoArgs.text, <<>>)
    /\ nc = NotCalled
    /\ voice = NotCalled
    /\ tts = NotCalled
    /\ typed = NotCalled
    /\ input_success = FALSE
    /\ a_reloads = 0
    /\ exit_voice = FALSE
    /\ a_outcome = NoOutcome

\* for attempt in range(max_retries): the next pass through the try block.
AttemptStart ==
    /\ a_pc = "loop"
    /\ a_attempt < a_cfg.max_retries
    /\ a_pc' = "detect"
    /\ a_cfg' = [a_cfg EXCEPT !.retry = a_attempt < a_cfg.max_retries - 1]
    /\ a_thread' \in [count : {0, MaxMessages}, raises : BOOLEAN]
    /\ nc' = NotCalled
    /\ voice' = NotCalled
    /\ tts' = NotCalled
    /\ typed' = NotCalled
    /\ input_success' = FALSE
    /\ a_reloads' = 0
    /\ exit_voice' = FALSE
    /\ a_outcome' = NoOutcome
    /\ UNCHANGED loop_vars
    /\ UNCHANGED not_attempt_vars

\* The attempt is over: attempt_loop goes on from what it ended with.
EndAttempt(kind, response) ==
    /\ a_pc' = "done"
    /\ a_outcome' = [kind |-> kind, response |-> response]

\* The check for a persistent UI error: with another attempt left the page
\* is reloaded (which may raise) and the attempt ends.
AttemptDetect ==
    /\ a_pc = "detect"
    /\ \E error_msg \in DetectResults, reload_raises \in BOOLEAN :
          IF is_ui_error(error_msg)
          THEN /\ a_reloads' = IF a_cfg.retry THEN 1 ELSE 0
               /\ IF a_cfg.retry /\ reload_raises
                  THEN EndAttempt("exception", <<>>)
                  ELSE EndAttempt("ui_error", error_msg)
          ELSE /\ a_pc' = "newconv"
               /\ UNCHANGED <<a_reloads, a_outcome>>
    /\ UNCHANGED <<a_cfg, a_thread, nc, voice, tts, typed, input_success, exit_voice>>
    /\ UNCHANGED loop_vars
    /\ UNCHANGED not_attempt_vars

\* On a page that shows a new conversation neither loop is entered and what
\* its passes would run into is not read: one run stands for all of them.
UnreadRun == <<"new">>

\* if not await self.start_new_conversation(): ...
AttemptNewConversation ==
    /\ a_pc = "newconv"
    /\ \E click_script \in IF is_new_conversation(a_thread) THEN {UnreadRun}
                           ELSE LoopRuns(ClickOutcomes, {"new", "url_main"},
                                         a_cfg.max_retries, a_cfg.retry_delay),
          nav_script \in IF is_new_conversation(a_thread) THEN {UnreadRun}
                         ELSE PassRuns(NavOutcomes, {"new"}, NavAttempts) :
          LET r == start_new_conversation(is_new_conversation(a_thread), click_script, nav_script,
                                          a_cfg.max_retries, a_cfg.retry_delay)
          IN /\ nc' = r
             /\ IF r.raised THEN EndAttempt("exception", <<>>)
                ELSE IF r.ok THEN a_pc' = "voice" /\ UNCHANGED a_outcome
                ELSE EndAttempt("newconv_fail", <<>>)
    /\ UNCHANGED <<a_cfg, a_thread, voice, tts, typed, input_success, a_reloads,
                   exit_voice>>
    /\ UNCHANGED loop_vars
    /\ UNCHANGED not_attempt_vars

\* if await self.try_voice_mode(): ... else: the text path
AttemptVoice ==
    /\ a_pc = "voice"
    /\ \E script \in LoopRuns(StepOutcomes, {"ok"}, a_cfg.max_retries,
                               a_cfg.retry_delay) :
          LET r == try_voice_mode(script, a_cfg.max_retries, a_cfg.retry_delay)
          IN /\ voice' = r
             /\ IF r.raised THEN EndAttempt("exception", <<>>)
                ELSE /\ a_pc' = IF r.ok THEN "tts" ELSE "text"
                     /\ UNCHANGED a_outcome
    /\ UNCHANGED <<a_cfg, a_thread, nc, tts, typed, input_success, a_reloads,
                   exit_voice>>
    /\ UNCHANGED loop_vars
    /\ UNCHANGED not_attempt_vars

\* if not input_success: the fallback to the text path after the speech.
runs_text_after_tts(tts_ok) == ~tts_ok

\* input_success = await self.generate_and_stream_tts(prompt_text)
AttemptTts ==
    /\ a_pc = "tts"
    /\ \E o \in TtsOutcomes :
          IF o \in TtsRaisedPast
          THEN /\ tts' = generate_and_stream_tts(o)
               /\ EndAttempt("exception", <<>>)
               /\ UNCHANGED input_success
          ELSE LET r == generate_and_stream_tts(o)
               IN /\ tts' = r
                  /\ input_success' = r.ok
                  /\ a_pc' = IF runs_text_after_tts(r.ok) THEN "text" ELSE "check"
                  /\ UNCHANGED a_outcome
    /\ UNCHANGED <<a_cfg, a_thread, nc, voice, typed, a_reloads, exit_voice>>
    /\ UNCHANGED loop_vars
    /\ UNCHANGED not_attempt_vars

\* input_success = await self.send_text_input(prompt_text)
AttemptText ==
    /\ a_pc = "text"
    /\ \E script \in LoopRuns(StepOutcomes, {"ok"}, a_cfg.max_retries,
                               a_cfg.retry_delay) :
          LET r == send_text_input(script, a_cfg.max_retries, a_cfg.retry_delay)
          IN /\ typed' = r
             /\ IF r.raised
                THEN EndAttempt("exception", <<>>) /\ UNCHANGED input_success
                ELSE /\ input_success' = r.ok
                     /\ a_pc' = "check"
                     /\ UNCHANGED a_outcome
    /\ UNCHANGED <<a_cfg, a_thread, nc, voice, tts, a_reloads, exit_voice>>
    /\ UNCHANGED loop_vars
    /\ UNCHANGED not_attempt_vars

\* if not input_success: ...
AttemptCheckInput ==
    /\ a_pc = "check"
    /\ IF input_success THEN a_pc' = "wait" /\ UNCHANGED a_outcome
       ELSE EndAttempt("input_fail", <<>>)
    /\ UNCHANGED <<a_cfg, a_thread, nc, voice, tts, typed, input_success,
                   a_reloads, exit_voice>>
    /\ UNCHANGED loop_vars
    /\ UNCHANGED not_attempt_vars

\* The texts wait_for_response may return to process_prompt.
Responses == {NoResponse, LostThread, ErrorOf(<<"failed">>), ReplyText}

\* exit_voice_mode raises nothing past itself but the sleep of retry_delay
\* in its except clause: the exit button is found, its click raises on the
\* first pass, a pass is left and the sleep raises.
exit_voice_mode_raises(click_raises, maxr, delay) ==
    click_raises /\ 0 < maxr - 1 /\ sleep_raises(delay)

\* response = await self.wait_for_response() and its validation: an error
\* text with an attempt left ends the attempt, anything else is returned
\* after exit_voice_mode, unless exit_voice_mode raises.
AttemptWait ==
    /\ a_pc = "wait"
    /\ \E response \in Responses, click_raises \in BOOLEAN :
          LET exits == ~(startswith_Error(response) /\ a_cfg.retry)
          IN /\ exit_voice' = exits
             /\ IF exits /\ exit_voice_mode_raises(click_raises, a_cfg.max_retries,
                                                    a_cfg.retry_delay)
                THEN EndAttempt("exception", <<>>)
                ELSE EndAttempt("response", response)
    /\ UNCHANGED <<a_cfg, a_thread, nc, voice, tts, typed, input_success, a_reloads>>
    /\ UNCHANGED loop_vars
    /\ UNCHANGED not_attempt_vars

\* The continue statements of process_prompt: with an attempt left, the loop
\* goes on after a UI error, a failed start_new_conversation, a failed
\* input, a response that starts with 'Error:' and an exception.
retries_after(outcome, retry) ==
    retry /\ (\/ outcome.kind \in {"ui_error", "newconv_fail", "input_fail", "exception"}
              \/ outcome.kind = "response" /\ startswith_Error(outcome.response))

\* The sleeps of retry_delay of process_prompt (lines 494, 511, 522, 539):
\* before each continue but the one that follows the reload of the page.
sleeps_before_retry(outcome, retry) ==
    retries_after(outcome, retry) /\ outcome.kind # "ui_error"

\* The record attempt_loop builds in attempt att from what the attempt ended with.
one_attempt(args, outcome, att, maxr, delay) ==
    attempt_loop(args.id, args.text, [k \in 1..maxr |-> outcome], att, maxr,
                 delay).record

\* The attempt is left: the records of its calls are dropped.
DropCallRecords ==
    /\ a_thread' = [count |-> 0, raises |-> FALSE]
    /\ nc' = NotCalled
    /\ voice' = NotCalled
    /\ tts' = NotCalled
    /\ typed' = NotCalled
    /\ input_success' = FALSE
    /\ a_reloads' = 0
    /\ exit_voice' = FALSE

\* continue, and the end of the loop body after an exception on the last
\* attempt: back to the head of the for loop.  The records of the calls of
\* the attempt are dropped; what it ended with is kept in a_prev.
AttemptContinue ==
    /\ a_pc = "done"
    /\ retries_after(a_outcome, a_cfg.retry) \/ a_outcome.kind = "exception"
    /\ ~(sleeps_before_retry(a_outcome, a_cfg.retry) /\ sleep_raises(a_cfg.retry_delay))
    /\ a_pc' = "loop"
    /\ a_attempt' = a_attempt + 1
    /\ a_prev' = [kind |-> a_outcome.kind,
                  response |-> IF a_outcome.kind = "response"
                               THEN a_outcome.response ELSE <<>>,
                  reloads |-> a_reloads]
    /\ DropCallRecords
    /\ UNCHANGED <<a_cfg, a_outcome, a_args, p_return>>
    /\ UNCHANGED not_attempt_vars

\* The return statements inside the loop.
PromptReturn ==
    /\ a_pc = "done"
    /\ ~(retries_after(a_outcome, a_cfg.retry) \/ a_outcome.kind = "exception")
    /\ a_pc' = "returned"
    /\ p_return' = one_attempt(a_args, a_outcome, a_attempt, a_cfg.max_retries,
                               a_cfg.retry_delay)
    /\ DropCallRecords
    /\ UNCHANGED <<a_cfg, a_outcome, a_attempt, a_args, a_prev>>
    /\ UNCHANGED not_attempt_vars

\* The sleep of retry_delay before a continue raises: inside the try block
\* it is caught by the except clause, whose own sleep raises past
\* process_prompt.
PromptRaises ==
    /\ a_pc = "done"
    /\ sleeps_before_retry(a_outcome, a_cfg.retry)
    /\ sleep_raises(a_cfg.retry_delay)
    /\ a_pc' = "raised"
    /\ DropCallRecords
    /\ UNCHANGED <<a_cfg, a_outcome, a_attempt, a_args, a_prev, p_return>>
    /\ UNCHANGED not_attempt_vars

\* The return after the loop: 'Error: Failed after N attempts'.
PromptExhausted ==
    /\ a_pc = "loop"
    /\ a_attempt >= a_cfg.max_retries
    /\ a_pc' = "returned"
    /\ p_return' = attempt_loop(a_args.id, a_args.text, <<>>, a_attempt,
                                a_cfg.max_retries, a_cfg.retry_delay).record
    /\ UNCHANGED <<a_cfg, a_thread, nc, voice, tts, typed, input_success,
                   a_reloads, exit_voice, a_outcome, a_attempt, a_args, a_prev>>
    /\ UNCHANGED not_attempt_vars

NextAttempt ==
    \/ AttemptStart
    \/ AttemptContinue
    \/ PromptReturn
    \/ PromptRaises
    \/ PromptExhausted
    \/ AttemptDetect
    \/ AttemptNewConversation
    \/ AttemptVoice
    \/ AttemptTts
    \/ AttemptText
    \/ AttemptCheckInput
    \/ AttemptWait

SpecAttempt == InitAttempt /\ [][NextAttempt]_vars

----------------------------------------------------------------------------
(* Properties of run_automation and main *)

RunReturned == r_pc \in {"returned", "exited"}

\* The input rows as the prompts file holds them.
InputRows == prompts_file.rows

\* The lines this run added to the results file.
NewRecords ==
    IF sink0_exists
    THEN SubSeq(sink_lines, Len(sink0_lines) + 1, Len(sink_lines))
    ELSE Records(sink_lines)

\* The results file still starts with what it held before the run.
OldLinesKept ==
    sink0_exists =>
        /\ Len(sink_lines) >= Len(sink0_lines)
        /\ SubSeq(sink_lines, 1, Len(sink0_lines)) = sink0_lines

\* recs holds one record per row of rows, in order, with its id and prompt.
OnePerRow(recs, rows) ==
    /\ Len(recs) = Len(rows)
    /\ \A k \in DOMAIN rows :
          recs[k].id = rows[k].id /\ recs[k].prompt = rows[k].text

\* C1 as stated: after a successful run with resume=false the results sink
\* holds exactly one record per input id, in input order, each with the id
\* and the prompt of its input row.
C1_SinkHoldsOnePerInput ==
    (RunReturned /\ success /\ ~resume) =>
        OnePerRow(Records(sink_lines), InputRows)

\* C1 amended: a successful run with resume=false appends exactly one record
\* per input id, in input order, each with the id and the prompt of its
\* input row, after the lines the results file already held.
C1_AppendsOnePerInput ==
    (RunReturned /\ success /\ ~resume) =>
        /\ OldLinesKept
        /\ OnePerRow(NewRecords, InputRows)

C1_Witness ==
    /\ RunReturned /\ success /\ ~resume
    /\ Len(InputRows) >= 2
    /\ sink0_exists /\ Len(sink0_lines) >= 2
    /\ OnePerRow(NewRecords, InputRows)

\* C2: at every point of a run the records written by this run are those of
\* the finished iterations, in order, and process_prompt has been started
\* for at most one prompt more: the record of prompt k is in the sink before
\* prompt k+1 is handed to process_prompt.
C2_CrashSafety ==
    /\ OldLinesKept
    /\ Len(NewRecords) = i
    /\ Len(started) = IF r_pc \in {"process", "save"} \/ run_fail \in {"save", "prompt"}
                       THEN i + 1 ELSE i
    /\ \A k \in 1..i : NewRecords[k].id = to_csv_cell(started[k])

C2_Witness ==
    /\ r_pc = "process"
    /\ i >= 1
    /\ Len(started) = 2
    /\ Len(NewRecords) = 1

\* The id cells the results file held at the start of the run.
PersistedCells ==
    IF sink0_exists THEN Range(IdCellsOf(sink0_lines)) ELSE {}

\* The input rows whose id is not in the results file at the start.
PendingRows ==
    SelectRows(InputRows, [k \in DOMAIN InputRows |-> InputRows[k].id \notin PersistedCells])

\* C3 as stated: a successful run with resume=true hands to process_prompt
\* exactly the input prompts whose id is not yet in the sink, in input order,
\* appends one record for each of them and leaves the persisted lines alone.
C3_ResumeSkipsPersisted ==
    (RunReturned /\ success /\ resume) =>
        /\ OldLinesKept
        /\ Len(started) = Len(PendingRows)
        /\ \A k \in DOMAIN started : to_csv_cell(started[k]) = PendingRows[k].id
        /\ OnePerRow(NewRecords, PendingRows)

IsReplyOrError(reply) == reply = ReplyText \/ startswith_Error(reply)

\* C9 as stated: every failure inside process_prompt ends in a record with
\* the id and prompt of its row and a reply or an 'Error:' text, a run that
\* got past loading processes every pending prompt, and the run returns
\* False only when the connection or the loading of the prompts failed.
C9_FailureContainment ==
    /\ (r_pc = "returned" /\ ~success) => run_fail \in {"connect", "load"}
    /\ r_pc = "save" =>
          /\ result.id = df[i + 1].id
          /\ result.prompt = df[i + 1].text
          /\ IsReplyOrError(result.grok_reply)
    /\ (RunReturned /\ success) =>
          /\ Len(results) = Len(df)
          /\ \A k \in DOMAIN df :
                results[k].id = df[k].id /\ IsReplyOrError(results[k].grok_reply)

\* C10 as stated: the exit status is non-zero when the connection could not
\* be established or the prompts could not be loaded, and zero when the run
\* got past both.
C10_ExitStatus ==
    r_pc = "exited" =>
        /\ run_fail \in {"connect", "load"} => exit_status # 0
        /\ run_fail = "none" => exit_status = 0

\* The connection attempts made so far: attempt counts the failed ones that
\* were followed by another, and one more is running or was the last.
ConnectAttempts == IF r_pc = "main" THEN 0 ELSE attempt + 1

\* C11: connect_to_chrome_with_retry makes at most max_retries connection
\* attempts; it returns False only when max_retries attempts were made and
\* all of them failed, and then run_automation returns False with no prompt
\* handed to process_prompt and the results file as it was at the start.
C11_ConnectionBudget ==
    /\ ConnectAttempts <= max_retries
    /\ run_fail = "connect" =>
          /\ ConnectAttempts = max_retries
          /\ RunReturned /\ ~success
          /\ started = <<>> /\ results = <<>>
          /\ sink_exists = sink0_exists /\ sink_lines = sink0_lines

C11_Witness ==
    /\ r_pc = "returned" /\ run_fail = "connect"
    /\ max_retries = 2 /\ attempt = 1
    /\ prompts_file.kind = "ok" /\ Len(InputRows) >= 1
    /\ sink0_exists /\ Len(sink0_lines) >= 2

\* The results file was absent at the start of the run, or it was one that
\* a run had written: a header line first, records after it.
SinkMadeByRuns ==
    ~sink0_exists \/ sink0_lines \in OldSinks

HeaderLines(lines) == {k \in DOMAIN lines : lines[k] = HeaderRow}

\* C12: the first write creates the results file with the header line and
\* the record, every later write adds exactly one line, a record; so a file
\* that runs created and wrote holds exactly one header line, the first.
C12_OneHeaderFirst ==
    SinkMadeByRuns =>
        /\ Len(sink_lines) = (IF sink0_exists THEN Len(sink0_lines)
                              ELSE IF i > 0 THEN 1 ELSE 0) + i
        /\ sink_exists => HeaderLines(sink_lines) = {1}
        /\ ~sink_exists => sink_lines = <<>> /\ i = 0

C12_Witness ==
    /\ ~sink0_exists
    /\ i = 2
    /\ Len(sink_lines) = 3
    /\ HeaderLines(sink_lines) = {1}
    /\ sink_lines[3] = csv_line(result)

\* The id cells the results file held at the start with an 'Error:' reply.
PersistedErrorCells ==
    IF sink0_exists
    THEN {sink0_lines[k].id : k \in {j \in 2..Len(sink0_lines) :
                                       sink0_lines[j].grok_reply # <<>>
                                       /\ sink0_lines[j].grok_reply[1] = "Error:"}}
    ELSE {}

\* C26 as stated: in a run with resume=true an id of the results file counts
\* as completed whatever its reply is: a prompt whose stored reply is an
\* 'Error:' text is never handed to process_prompt, like one with a reply.
C26_ErrorReplyNeverRetried ==
    (resume /\ sink0_exists /\ sink0_lines # <<>>) =>
        \A k \in DOMAIN started :
            /\ to_csv_cell(started[k]) \notin PersistedErrorCells
            /\ to_csv_cell(started[k]) \notin PersistedCells

----------------------------------------------------------------------------
(* Properties of one attempt of process_prompt *)

\* The attempt is past the submission of the prompt.
InputDone ==
    \/ a_pc \in {"check", "wait"}
    \/ a_pc = "done" /\ a_outcome.kind \in {"input_fail", "response"}

VoiceSucceeded == voice.ok /\ tts.ok

\* C13 as stated: in an attempt that got to the submission, send_text_input
\* is run if and only if voice mode was not reached or the speech synthesis
\* or playback failed; when the voice path succeeded the text path is not
\* run, and no prompt is both spoken to its end and submitted as text.
C13_ChannelExclusivity ==
    InputDone =>
        /\ typed.called <=> (~voice.ok \/ (tts.called /\ ~tts.spoken))
        /\ VoiceSucceeded => (tts.spoken /\ typed.submits = 0 /\ input_success)
        /\ ~(tts.spoken /\ typed.submits > 0)
        /\ input_success <=> (VoiceSucceeded \/ typed.ok)
        /\ ~(VoiceSucceeded /\ typed.ok)

\* C14: when the conversation is already empty (the page shows no message),
\* start_new_conversation returns True and has clicked nothing and navigated
\* nowhere, and nothing was reloaded in the attempt.
C14_FreshIsNoOp ==
    (nc.called /\ a_thread.count = 0) =>
        /\ nc.ok
        /\ nc.clicks = 0 /\ nc.gotos = 0
        /\ a_reloads = 0
        /\ a_pc # "done" \/ a_outcome.kind # "newconv_fail"

C14_Witness ==
    /\ a_pc = "voice"
    /\ a_thread = [count |-> 0, raises |-> FALSE]
    /\ a_cfg.max_retries = 2
    /\ nc.called /\ nc.ok /\ nc.clicks = 0 /\ nc.gotos = 0

\* C21 as stated: when the conversation is not new, start_new_conversation
\* clicks the new chat button at most max_retries times, then navigates to
\* the site root, then attempts a page reload, and returns False only after
\* all of these have failed.
C21_ReloadBeforeFalse ==
    (nc.called /\ ~is_new_conversation(a_thread)) =>
        /\ nc.clicks <= a_cfg.max_retries
        /\ ~nc.ok => (nc.gotos >= 1 /\ a_reloads >= 1)

\* C22 as stated: when start_new_conversation returned False the attempt
\* goes on to the submission of the input and the capture of the response;
\* it does not end on the failed start.
C22_FalseProceeds ==
    (nc.called /\ ~nc.ok) =>
        ~(a_pc = "done" /\ a_outcome.kind = "newconv_fail")

\* A failure signal of an attempt: a UI error, a failed start of the
\* conversation, a failed input, a response that starts with 'Error:', an
\* exception.
FailureSignal(o) ==
    \/ o.kind \in {"ui_error", "newconv_fail", "input_fail", "exception"}
    \/ o.kind = "response" /\ o.response # <<>> /\ o.response[1] = "Error:"

\* What the final attempt records for what it ended with.
TerminalReply(o) ==
    CASE o.kind = "ui_error" -> <<"Error:", "Persistent UI error - ">> \o o.response
      [] o.kind = "newconv_fail" -> <<"Error:", "Could not start new conversation">>
      [] o.kind = "input_fail" -> <<"Error:", "Failed to send input after retries">>
      [] o.kind = "response" -> o.response

\* C23 as stated: process_prompt runs at most max_retries attempts; a failure
\* signal on a non-final attempt sends the loop back to its first step for
\* the next attempt; a return before the final attempt returns a response
\* that is no error, and the final attempt records whatever it ended with, an
\* error text of wait_for_response included.  It fails where the sleep of
\* retry_delay that precedes the next attempt raises: the failed attempt is
\* followed by no attempt, process_prompt raises past itself (C9).
C23_RetryBudget ==
    /\ [](/\ a_attempt <= a_cfg.max_retries
          /\ a_pc \in {"detect", "newconv", "voice", "tts", "text", "check", "wait", "done"}
                => a_attempt < a_cfg.max_retries
          /\ (a_pc = "returned" /\ a_attempt < a_cfg.max_retries - 1)
                => /\ ~FailureSignal(a_outcome)
                   /\ p_return.grok_reply = a_outcome.response
          /\ (a_pc = "returned" /\ a_attempt = a_cfg.max_retries - 1)
                => p_return.grok_reply = TerminalReply(a_outcome))
    /\ [][(a_pc = "done" /\ FailureSignal(a_outcome)
              /\ a_attempt < a_cfg.max_retries - 1)
            => (a_pc' = "loop" /\ a_attempt' = a_attempt + 1
                  /\ a_attempt' < a_cfg.max_retries)]_vars
    /\ [][(a_pc = "loop" /\ a_attempt < a_cfg.max_retries) => a_pc' = "detect"]_vars

\* The attempt before ended on a non-throttling UI error banner: seen by the
\* check before the prompt, or reported by wait_for_response as 'Error: ...'.
PrevEndedOnBanner ==
    \/ a_prev.kind = "ui_error"
    \/ a_prev.kind = "response" /\ a_prev.response = ErrorOf(<<"failed">>)

\* C24 as stated: when an attempt is a retry after a non-throttling UI error
\* banner, the page was reloaded before it gets to its conversation and
\* input steps.
C24_ReloadBeforeRetry ==
    (a_pc \in {"newconv", "voice", "tts", "text", "check", "wait"}
        /\ a_attempt >= 1 /\ PrevEndedOnBanner)
      => a_prev.reloads + a_reloads >= 1

\* The budget of one sub-step, on the record of its call: at most max_retries
\* passes, a retry_delay between consecutive passes, True exactly when the
\* last pass completed without an exception and without a UI error, every
\* pass before it having failed, and False only after max_retries passes.
\* A call that a sleep of retry_delay raised past returns neither of the
\* two: it ends before its budget is used up, on a pass that failed.
SubStepBudget(r, clicks_or_submits) ==
    r.called =>
        /\ r.passes >= 1 /\ r.passes <= a_cfg.max_retries
        /\ clicks_or_submits <= r.passes
        /\ r.delays = r.passes - 1
        /\ r.ok <=> r.last = "ok"
        /\ r.ok => (~r.raised /\ r.fails = r.passes - 1)
        /\ (~r.ok /\ ~r.raised) =>
              (r.passes = a_cfg.max_retries /\ r.fails = r.passes)
        /\ r.raised => (r.passes < a_cfg.max_retries /\ r.fails = r.passes)

\* C25: try_voice_mode and send_text_input each keep to the sub-step budget,
\* counted in clicks of the voice button and in fill-and-Enter submissions.
C25_SubStepBudget ==
    /\ SubStepBudget(voice, voice.clicks)
    /\ SubStepBudget(typed, typed.submits)

C25_Witness ==
    /\ a_cfg.max_retries = 2
    /\ voice.called /\ ~voice.ok /\ voice.passes = 2 /\ voice.clicks = 1
    /\ typed.called /\ typed.ok /\ typed.passes = 2 /\ typed.submits = 2
    /\ typed.delays = 1

\* 'Error: Failed after N attempts'
GenericReply(maxr) == <<"Error:", "Failed after attempts", ToString(maxr)>>

\* How far process_prompt is from its return: the attempts left, and within
\* an attempt the statements left.
StageRank ==
    CASE a_pc = "loop" -> 9 [] a_pc = "detect" -> 8 [] a_pc = "newconv" -> 7
      [] a_pc = "voice" -> 6 [] a_pc = "tts" -> 5 [] a_pc = "text" -> 4
      [] a_pc = "check" -> 3 [] a_pc = "wait" -> 2 [] a_pc = "done" -> 1
      [] OTHER -> 0

PromptRank == (a_cfg.max_retries - a_attempt) * 10 + StageRank

\* C27 as stated: process_prompt is total for every max_retries >= 0: every
\* step takes it nearer to its return and it is never stuck before it; the
\* record it returns has the id and the prompt of its arguments; the generic
\* record 'Error: Failed after N attempts' is returned only when the final
\* attempt raised an exception or max_retries is 0.  It fails where a sleep
\* of retry_delay raises after a failed attempt that is not the last:
\* process_prompt ends without a return (C9).
C27_Total ==
    /\ [](/\ PromptRank >= 0
          /\ a_pc # "returned" => ENABLED NextAttempt
          /\ a_pc = "returned" =>
                /\ p_return.id = a_args.id
                /\ p_return.prompt = a_args.text
                /\ p_return.grok_reply = GenericReply(a_cfg.max_retries) =>
                      \/ a_cfg.max_retries = 0
                      \/ /\ a_outcome.kind = "exception"
                         /\ a_attempt = a_cfg.max_retries
                         /\ a_prev.kind = "exception")
    /\ [][PromptRank' < PromptRank]_vars

\* C31: the conversation state is two-valued and fails open: the attempt
\* takes the conversation for new exactly when it does not take it to have
\* messages, and whenever the query of the messages raises,
\* start_new_conversation reports success without a click or a navigation,
\* whatever the page shows.
C31_FailsOpen ==
    nc.called =>
        /\ (nc.clicks = 0 /\ nc.gotos = 0 /\ nc.ok)
              <=> (a_thread.raises \/ a_thread.count = 0)
        /\ a_thread.raises =>
              /\ nc.ok
              /\ nc.clicks = 0 /\ nc.gotos = 0
              /\ nc.passes = 0
              /\ a_pc # "done" \/ a_outcome.kind # "newconv_fail"

C31_Witness ==
    /\ nc.called /\ nc.ok
    /\ a_thread.raises /\ a_thread.count = MaxMessages
    /\ nc.clicks = 0 /\ nc.gotos = 0
    /\ a_pc = "wait"

----------------------------------------------------------------------------
(* Properties of wait_for_response *)

\* The snapshots read so far grew from poll to poll and then held, no poll
\* saw an error banner, and the last one is a reply under the character cap.
GrowThenHold ==
    /\ phase \in {"growing", "holding"}
    /\ Len(obs_prev) > cfg.min_response_length
    /\ Len(obs_prev) < cfg.max_response_chars

\* C4: for a reply that grows from poll to poll and then holds,
\* wait_for_response returns through the stability check exactly on the poll
\* that reads the unchanged snapshot for the N-th time in a row,
\* N = required_stable_checks, and returns the held text.
C4_StableAtTickN ==
    GrowThenHold =>
        /\ (w_exit = "stable") <=> (held >= cfg.required_stable_checks)
        /\ w_exit = "stable" =>
              /\ w_pc = "done"
              /\ held = cfg.required_stable_checks
              /\ w_result = obs_prev

C4_Witness ==
    /\ GrowThenHold
    /\ w_exit = "stable"
    /\ cfg.required_stable_checks = 2
    /\ held = 2
    /\ grew >= 1
    /\ w_result = obs_prev

\* C5: a poll that reads a snapshot of max_response_chars characters or more
\* ends wait_for_response on that poll with the first max_response_chars
\* characters of the snapshot.
C5_CharacterCap ==
    (w_last_poll = "read" /\ Len(obs_prev) >= cfg.max_response_chars) =>
        /\ w_pc = "done"
        /\ w_exit = "cap"
        /\ w_result = SubSeq(obs_prev, 1, cfg.max_response_chars)
        /\ Len(w_result) = cfg.max_response_chars

C5_Witness ==
    /\ w_exit = "cap"
    /\ Len(obs_prev) > cfg.max_response_chars
    /\ last_text # <<>>
    /\ stable_count < cfg.required_stable_checks
    /\ w_result # obs_prev

IsErrorText(value) == value # <<>> /\ value[1] = "Error:"

\* C6: when no snapshot read was longer than min_response_length and no error
\* was returned, wait_for_response returns 'Error: No response received', and
\* only once max_wait_time has elapsed; a text it returns as a reply is
\* always longer than min_response_length.
C6_NoResponse ==
    /\ (w_pc = "done" /\ ~ever_long /\ w_exit # "error") =>
          /\ w_result = NoResponse
          /\ elapsed >= cfg.max_wait_time
    /\ (w_pc = "done" /\ ~IsErrorText(w_result)) =>
          Len(w_result) > cfg.min_response_length

C6_Witness ==
    /\ w_pc = "done"
    /\ w_result = NoResponse
    /\ ~ever_long
    /\ w_last_poll = "read"
    /\ obs_prev # <<>>

\* C7 as stated: after a poll that saw a rate-limit banner the engine has
\* not terminated and, the cooldown over, polls again.
C7_RateLimitPollsAgain ==
    (w_last_poll = "rate_limited" /\ cfg.max_wait_time > RateLimitSleep) =>
        /\ w_pc = "polling"
        /\ elapsed < cfg.max_wait_time

\* C17 as stated: when max_wait_time has elapsed before stabilization,
\* wait_for_response returns the last snapshot it read, cut to
\* max_response_chars, when some snapshot read was longer than
\* min_response_length, and 'Error: No response received' otherwise.
C17_ReturnsLastObserved ==
    w_exit \in {"timeout_text", "no_response"} =>
        /\ elapsed >= cfg.max_wait_time
        /\ ever_long => w_result = Truncate(obs_prev, cfg.max_response_chars)
        /\ ~ever_long => w_result = NoResponse

\* C17: wait_for_response returns through its timeout fallback only once
\* max_wait_time has elapsed; it then returns the last snapshot read that was
\* longer than min_response_length, cut to max_response_chars, when there was
\* one, and 'Error: No response received' when there was none.
C17_TimeoutOutcome ==
    /\ w_exit \in {"timeout_text", "no_response"} =>
          /\ w_pc = "done"
          /\ elapsed >= cfg.max_wait_time
          /\ w_exit = "timeout_text" <=> ever_long
          /\ ever_long => w_result = Truncate(obs_long, cfg.max_response_chars)
          /\ ~ever_long => w_result = NoResponse
    /\ (w_pc = "done" /\ w_exit \in {"cap", "stable"}) =>
          elapsed < cfg.max_wait_time

C17_Witness ==
    /\ w_exit = "timeout_text"
    /\ ever_long
    /\ w_result = obs_long
    /\ obs_prev # obs_long
    /\ grew >= 1
    /\ stable_count >= 1

Polled == w_last_poll # "none"

\* C18 as stated: after a poll on which the page showed a visible banner
\* that is neither benign nor about throttling, wait_for_response has
\* returned 'Error: <banner text>'.
C18_AnyHardBannerEnds ==
    (Polled /\ w_view.hard # None) =>
        /\ w_pc = "done"
        /\ w_exit = "error"
        /\ w_result = <<"Error:">> \o w_view.hard

\* C18 amended: after a poll on which detect_ui_errors returned a banner
\* that is not about throttling (the first visible banner of the page that
\* is neither blank nor benign), wait_for_response has returned 'Error:
\* <banner text>' on that poll, whatever the reply snapshot of the poll and
\* the text and count accumulated before it; it returns an error of that form
\* on no other poll.
C18_DetectedBannerEnds ==
    /\ (Polled /\ w_view.error_msg # None /\ w_view.error_msg = w_view.hard) =>
          /\ w_pc = "done"
          /\ w_exit = "error"
          /\ w_last_poll = "error"
          /\ w_result = <<"Error:">> \o w_view.hard
    /\ w_exit = "error" =>
          /\ w_view.error_msg # None
          /\ w_view.error_msg = w_view.hard
          /\ elapsed < cfg.max_wait_time

C18_Witness ==
    /\ w_exit = "error"
    /\ w_result = <<"Error:", "failed">>
    /\ last_text # <<>>
    /\ stable_count = cfg.required_stable_checks - 1
    /\ stable_count >= 1
    /\ response_started

\* C19: a poll that sees a rate-limit banner changes none of last_text,
\* stable_count and response_started, and does not end the wait.
C19_CooldownKeepsGrowth ==
    [][rate_polls' = rate_polls + 1 =>
          /\ UNCHANGED <<last_text, stable_count, response_started>>
          /\ w_pc' = "polling"
          /\ w_result' = w_result]_vars

C19_Witness ==
    /\ w_last_poll = "rate_limited"
    /\ w_pc = "polling"
    /\ response_started
    /\ last_text # <<>>
    /\ stable_count >= 1

\* The time spent outside the rate-limit cooldowns.
ElapsedOutsideCooldown == elapsed - RateLimitSleep * rate_polls

\* C20 as stated: the cooldowns do not bring the timeout nearer:
\* wait_for_response takes its timeout path only when max_wait_time has
\* elapsed outside the cooldowns.
C20_CooldownNotCounted ==
    w_exit \in {"timeout_text", "no_response"} =>
        ElapsedOutsideCooldown >= cfg.max_wait_time

\* C16 as stated: a poll that reads a snapshot other than the one the poll
\* before read leaves the stability counter at zero, so wait_for_response
\* returns through the stability check only after required_stable_checks
\* polls in a row read the snapshot of the poll before them.  Stated for
\* waits in which every poll read the snapshot (no rate-limit cooldown).
C16_ChangeResets ==
    rate_polls = 0 =>
        /\ (w_last_poll = "read" /\ held = 0) => stable_count = 0
        /\ w_exit = "stable" => held >= cfg.required_stable_checks


\* C28: at every point of wait_for_response last_text is empty or its length
\* is strictly between min_response_length and max_response_chars; every
\* value returned that is no error has at most max_response_chars characters
\* and the timeout path returns last_text unchanged.
C28_BoundedCapture ==
    /\ last_text = <<>>
          \/ /\ Len(last_text) > cfg.min_response_length
             /\ Len(last_text) < cfg.max_response_chars
    /\ (w_pc = "done" /\ w_exit \in {"cap", "stable", "timeout_text"}) =>
          Len(w_result) <= cfg.max_response_chars
    /\ (w_pc = "done" /\ w_exit = "timeout_text") => w_result = last_text

C28_Witness ==
    /\ w_pc = "done" /\ w_exit = "timeout_text"
    /\ cfg.min_response_length = 1
    /\ cfg.max_response_chars = 4
    /\ Len(last_text) = 3
    /\ Len(obs_prev) = 1
    /\ w_result = last_text

\* C29 as stated: once a snapshot longer than min_response_length was seen,
\* any later poll on which the page has no response container ends the wait
\* with 'Error: Lost thread view during response'.
C29_AbsentContainerEnds ==
    (Polled /\ w_view.gone) => (w_pc = "done" /\ w_result = LostThread)

\* C29: once a snapshot longer than min_response_length was seen, a later
\* poll on which no UI error is detected and the page has no response
\* container ends the wait with 'Error: Lost thread view during response';
\* before the reply has started an absent container never ends it so.
C29_LostThreadEnds ==
    /\ [](/\ (Polled /\ w_view.gone /\ ~is_ui_error(w_view.error_msg)) =>
                /\ w_pc = "done" /\ w_exit = "lost"
                /\ w_result = LostThread
                /\ ever_long
          /\ w_exit = "lost" => (response_started /\ ever_long /\ w_view.gone))
    /\ [][~ever_long => w_exit' # "lost"]_vars

C29_Witness ==
    /\ w_pc = "done" /\ w_exit = "lost"
    /\ w_result = LostThread
    /\ w_view.gone /\ w_view.error_msg = None
    /\ stable_count >= 1

\* The sleep that ended the last poll: the cooldown after a throttling
\* banner, the poll interval otherwise.
LastSleep ==
    IF w_last_poll = "rate_limited" THEN RateLimitSleep
    ELSE cfg.stabilization_check_interval

LongestSleep ==
    IF RateLimitSleep > cfg.stabilization_check_interval THEN RateLimitSleep
    ELSE cfg.stabilization_check_interval

\* A step that is a poll: it sleeps, or it returns from inside the loop.
PollStep ==
    \/ elapsed' > elapsed
    \/ w_pc' = "done" /\ w_exit' \in {"error", "lost", "cap", "stable"}

\* C30: wait_for_response terminates when the clock advances: every step
\* before the return is possible and either advances the elapsed time or
\* returns; no poll starts once the elapsed time has reached max_wait_time;
\* the return comes no later than one poll interval, or one rate-limit
\* cooldown, after max_wait_time, with a text or an 'Error:' string.
C30_WaitTerminates ==
    /\ [](/\ w_pc = "polling" => ENABLED NextWait
          /\ elapsed <= cfg.max_wait_time + LastSleep
          /\ elapsed < cfg.max_wait_time + LongestSleep
          /\ w_pc = "done" =>
                \/ w_result # <<>> /\ w_result[1] = "Error:"
                \/ w_result # <<>> /\ w_exit \in {"cap", "stable", "timeout_text"})
    /\ [][w_pc = "polling" => (elapsed' > elapsed \/ w_pc' = "done")]_vars
    /\ [][PollStep => elapsed < cfg.max_wait_time]_vars

C30_Witness ==
    /\ w_pc = "done" /\ w_exit = "timeout_text"
    /\ w_last_poll = "rate_limited"
    /\ elapsed = cfg.max_wait_time + RateLimitSleep - cfg.stabilization_check_interval
    /\ cfg.max_wait_time >= 2 * cfg.stabilization_check_interval

----------------------------------------------------------------------------
(* Properties of detect_ui_errors *)

\* The banner mentions grok, in whatever case.
MentionsGrok(e) == \E k \in DOMAIN e.text : lower_word(e.text[k]) = "grok"

\* A banner detect_ui_errors reports: visible, its stripped text not empty,
\* no mention of grok.
Reportable(e) == e.visible /\ strip(e.text) # <<>> /\ ~MentionsGrok(e)

\* The positions of the reportable banners of the page.
ReportableAt(alerts) ==
    {k \in DOMAIN alerts.elements : Reportable(alerts.elements[k])}

FirstOf(S) == CHOOSE k \in S : \A j \in S : k <= j

\* The query raised during the call: the locator did, or a call on an
\* element did before a reportable banner was found.
QueryRaised(alerts) ==
    \/ alerts.raises
    \/ \E k \in DOMAIN alerts.elements :
          /\ alerts.elements[k].raises
          /\ \A j \in 1..(k - 1) :
                alerts.elements[j].raises \/ ~Reportable(alerts.elements[j])

\* C32: detect_ui_errors returns the stripped text of the first banner, in
\* document order, that is visible, not blank and without 'grok' in it,
\* whatever banners stand before it; it returns None exactly when there is
\* no such banner or the query raised; a banner that mentions grok is never
\* reported, whatever else it mentions.
C32_BenignFiltering ==
    d_pc = "returned" =>
        /\ d_result = None <=> (QueryRaised(d_alerts) \/ ReportableAt(d_alerts) = {})
        /\ d_result # None =>
              d_result = strip(d_alerts.elements[FirstOf(ReportableAt(d_alerts))].text)
        /\ \A k \in DOMAIN d_alerts.elements :
              MentionsGrok(d_alerts.elements[k]) =>
                  d_result # strip(d_alerts.elements[k].text)

C32_Witness ==
    /\ d_pc = "returned"
    /\ Len(d_alerts.elements) = 2
    /\ d_alerts.elements[1] = [visible |-> TRUE, text |-> <<"grok", "rate limit">>,
                               raises |-> FALSE]
    /\ d_alerts.elements[2].text = <<" ", "failed">>
    /\ d_result = <<"failed">>

----------------------------------------------------------------------------
(* Properties of the resolution of elements *)

Earliest(S) == CHOOSE a \in S : \A b \in S : a <= b

\* The element is visible and enabled, and is_visible() and is_enabled()
\* answer so.
Resolvable(pg, e) ==
    /\ pg.elements[e].visible /\ pg.elements[e].enabled
    /\ pg.elements[e].raises \notin {"is_visible", "is_enabled"}

\* The patterns of the role's ordered list that match the page: the query
\* answers and a match of it is visible and enabled.
Matching(pg) ==
    {sel \in 1..Len(pg.matches) :
        sel \notin pg.bad /\ \E e \in pg.matches[sel] : Resolvable(pg, e)}

\* C8 as stated: when several patterns of the role's ordered list match the
\* page at the same time, the element the resolution of the role returns is
\* one matched by the earliest of them.  The resolution of the code is
\* find_element with the one selector it holds for the role.
C8_EarliestPatternWins ==
    (rs_pc = "found" /\ Cardinality(Matching(page)) >= 2) =>
        /\ fe_result # 0
        /\ fe_result \in page.matches[Earliest(Matching(page))]
        /\ Resolvable(page, fe_result)

\* The matches of a selector that are visible and enabled.
Usable(pg, sel) ==
    {e \in pg.matches[sel] : pg.elements[e].visible /\ pg.elements[e].enabled}

\* C15 as stated: find_element returns the first match, in document order,
\* that is visible and enabled, whatever the matches before it are, and
\* None only when no match of the selector is visible and enabled.
C15_FirstUsableMatch ==
    (rs_pc = "found" /\ fe_selector \notin page.bad) =>
        fe_result = IF Usable(page, fe_selector) = {} THEN 0
                    ELSE Earliest(Usable(page, fe_selector))

====
